---- MODULE Spec2Model ----
(***************************************************************************)
(* A model of the agentic-guardrails repository: the conversation          *)
(* controller of src/agent/graph.py (AgentState, call_gemini_with_tools,   *)
(* agent_node), the tools of src/agent/tools.py, and the model clients of  *)
(* src/clients (GeminiClient.generate / generate_json,                     *)
(* OllamaClient.generate) with the settings of src/config.py.              *)
(*                                                                         *)
(* Texts are sequences of one-character strings, so that str.strip,        *)
(* str.startswith, str.endswith, slicing and json.loads are computed the   *)
(* way the code computes them.                                             *)
(***************************************************************************)
EXTENDS Integers, Sequences, FiniteSets, TLC

VARIABLES
    messages,   \* AgentState["messages"]: the conversation history
    pc,         \* where the turn stands: "idle", "pending", "returned", "raised"
    response,   \* agent_node's local response (graph.py:94)
    prompt,     \* prompt_text handed to the planning call (graph.py:73)
    error,      \* the exception that left agent_node, "" when none
    tradeLog,   \* the confirmations execute_trade has produced
    call,       \* the client method a gateway call runs
    backend,    \* what the backing SDK does for that call
    attempts,   \* SDK requests made for the logical call
    result,     \* what the client method gave its caller
    loaderContent, \* data_loader.TEN_K_REPORT_CONTENT (data_loader.py:10)
    toolsImported, \* whether agent/tools.py has been imported
    toolsContent,  \* the name TEN_K_REPORT_CONTENT bound in tools (tools.py:9)
    loaded,        \* whether download_and_load_10K has succeeded
    lastQuery,     \* the last query_10K_report call and what was loaded then
    answer         \* what that call returned

vars == <<messages, pc, response, prompt, error, tradeLog,
          call, backend, attempts, result,
          loaderContent, toolsImported, toolsContent, loaded, lastQuery,
          answer>>

ctlVars == <<messages, pc, response, prompt, error, tradeLog>>
gwVars == <<call, backend, attempts, result>>
rpVars == <<loaderContent, toolsImported, toolsContent, loaded, lastQuery,
           answer>>

(***************************************************************************)
(* Bounds of the model.                                                    *)
(***************************************************************************)
MaxMessages == 3
MaxWs == 1
MaxReportLen == 2
MaxQueryLen == 2

(***************************************************************************)
(* Settings of src/config.py.                                              *)
(***************************************************************************)
MAX_RETRIES == 3

(***************************************************************************)
(* Conversation controller: src/agent/graph.py and src/agent/tools.py.     *)
(***************************************************************************)

\* What a user may say in a turn.
UserContents == {"ask_revenue", "buy_on_rumor"}

HumanMessage(c) == [role |-> "user", content |-> c]

\* The tool names declared to the planning model (graph.py:30-70).
ToolNames == {"query_10K_report", "get_real_time_market_data", "execute_trade"}

NoArgs == [query |-> "", ticker |-> "", shares |-> 0, order_type |-> ""]

\* The arguments the planning model may propose for each declared tool,
\* following the parameter schemas of tools_config.
ToolArgs(name) ==
    CASE name = "query_10K_report" ->
           {[NoArgs EXCEPT !.query = "revenue"]}
      [] name = "get_real_time_market_data" ->
           {[NoArgs EXCEPT !.ticker = "NVDA"]}
      [] name = "execute_trade" ->
           {[NoArgs EXCEPT !.ticker = "NVDA", !.shares = n, !.order_type = o] :
              n \in {10, 10000}, o \in {"BUY", "SELL"}}

\* What models.generate_content does for the planning call: it returns a
\* response that is plain text or a function call, or it raises.
PlanOutcomes ==
    {[kind |-> "FINAL_ANSWER", name |-> "", args |-> NoArgs]}
    \cup UNION {{[kind |-> "TOOL_CALL", name |-> n, args |-> a] :
                   a \in ToolArgs(n)} : n \in ToolNames}
    \cup {[kind |-> "ERROR", name |-> e, args |-> NoArgs] :
            e \in {"ServerError", "Timeout"}}

NoResponse == [kind |-> "NONE", name |-> "", args |-> NoArgs]

\* langgraph's add_messages reducer as AgentState uses it (graph.py:23):
\* the update is appended to the history.
add_messages_overwrite(left, right) == right

add_messages(left, right) == left \o right

\* execute_trade (tools.py:84-116): the confirmation it returns.  The
\* confirmation id is read from the clock and is left out.
execute_trade(ticker, shares, order_types) ==
    [status |-> "SUCCESS", ticker_id |-> ticker, shares |-> shares,
     order_type |-> order_types]

\* call_gemini_with_tools (graph.py:26-83) on history msgs, when the SDK
\* answers the request with out.  The request carries the content of the
\* last message only; an empty history fails at messages[-1].
call_gemini_with_tools(msgs, out) ==
    IF msgs = <<>>
    THEN [kind |-> "raised", error |-> "IndexError", prompt |-> "",
          value |-> NoResponse]
    ELSE LET last_msg == msgs[Len(msgs)]
             prompt_text == last_msg.content
         IN  IF out.kind = "ERROR"
             THEN [kind |-> "raised", error |-> out.name,
                   prompt |-> prompt_text, value |-> NoResponse]
             ELSE [kind |-> "returned", error |-> "",
                   prompt |-> prompt_text, value |-> out]

\* The caller starts a turn: its HumanMessage enters the state through the
\* reducer of AgentState.
UserMessage ==
    /\ pc \in {"idle", "returned", "raised"}
    /\ Len(messages) < MaxMessages
    /\ \E c \in UserContents :
         messages' = add_messages(messages, <<HumanMessage(c)>>)
    /\ pc' = "pending"
    /\ response' = NoResponse
    /\ prompt' = ""
    /\ error' = ""
    /\ UNCHANGED tradeLog
    /\ UNCHANGED gwVars
    /\ UNCHANGED rpVars

\* agent_node with the proposed tool call dispatched straight to the tool.
agent_node_dispatch ==
    /\ pc \in {"idle", "pending"}
    /\ \E out \in PlanOutcomes :
         LET r == call_gemini_with_tools(messages, out)
         IN  /\ prompt' = r.prompt
             /\ response' = r.value
             /\ error' = r.error
             /\ pc' = IF r.kind = "raised" THEN "raised" ELSE "returned"
             /\ tradeLog' =
                  IF r.kind = "returned" /\ r.value.kind = "TOOL_CALL"
                     /\ r.value.name = "execute_trade"
                  THEN Append(tradeLog,
                              execute_trade(r.value.args.ticker,
                                            r.value.args.shares,
                                            r.value.args.order_type))
                  ELSE tradeLog
    /\ UNCHANGED messages
    /\ UNCHANGED gwVars
    /\ UNCHANGED rpVars

\* agent_node (graph.py:86-94): one planning call on the current history.
\* The response is bound to a local and the function ends, so the node
\* returns None: no message is added and no tool is run.  An exception of
\* the planning call is not caught and leaves the node.
agent_node ==
    /\ pc \in {"idle", "pending"}
    /\ \E out \in PlanOutcomes :
         LET r == call_gemini_with_tools(messages, out)
         IN  /\ prompt' = r.prompt
             /\ response' = r.value
             /\ error' = r.error
             /\ pc' = IF r.kind = "raised" THEN "raised" ELSE "returned"
    /\ UNCHANGED <<messages, tradeLog>>
    /\ UNCHANGED gwVars
    /\ UNCHANGED rpVars

(***************************************************************************)
(* Model clients: src/clients/gemini_client.py, ollama_client.py.          *)
(***************************************************************************)

\* Python's str primitives on texts.
Whitespace == {" ", "\n"}

RECURSIVE lstrip(_)
lstrip(s) ==
    IF s # <<>> /\ Head(s) \in Whitespace THEN lstrip(Tail(s)) ELSE s

RECURSIVE rstrip(_)
rstrip(s) ==
    IF s # <<>> /\ s[Len(s)] \in Whitespace
    THEN rstrip(SubSeq(s, 1, Len(s) - 1))
    ELSE s

strip(s) == rstrip(lstrip(s))

startswith(s, p) == Len(s) >= Len(p) /\ SubSeq(s, 1, Len(p)) = p

endswith(s, p) ==
    Len(s) >= Len(p) /\ SubSeq(s, Len(s) - Len(p) + 1, Len(s)) = p

\* s[k:] and s[:-k]
SliceFrom(s, k) == SubSeq(s, k + 1, Len(s))

SliceDropLast(s, k) == SubSeq(s, 1, Len(s) - k)

\* The fence marker of three backticks; the backtick is written "^" here.
Fence == <<"^", "^", "^">>
FenceJson == Fence \o <<"j", "s", "o", "n">>
FenceJs == Fence \o <<"j", "s">>

\* Python values a client method returns.
NoneValue == [type |-> "None", n |-> 0, items |-> <<>>, text |-> <<>>]
StrValue(t) == [type |-> "str", n |-> 0, items |-> <<>>, text |-> t]
IntValue(k) == [type |-> "int", n |-> k, items |-> <<>>, text |-> <<>>]
DictValue == [type |-> "dict", n |-> 0, items |-> <<>>, text |-> <<>>]
ListValue(xs) == [type |-> "list", n |-> 0, items |-> xs, text |-> <<>>]

Returned(v) == [kind |-> "returned", error |-> "", value |-> v]
Raised(e) == [kind |-> "raised", error |-> e, value |-> NoneValue]
NoResult == [kind |-> "pending", error |-> "", value |-> NoneValue]

\* json.loads on the texts of the model: numbers written with the digit 1,
\* the empty object, and arrays of values, with JSON whitespace between the
\* tokens.  Anything else does not decode.
ParseFail == [ok |-> FALSE, value |-> NoneValue, rest |-> <<>>]
ParseOk(v, rest) == [ok |-> TRUE, value |-> v, rest |-> rest]

RECURSIVE ParseDigits(_, _)
ParseDigits(s, acc) ==
    IF s # <<>> /\ Head(s) = "1"
    THEN ParseDigits(Tail(s), 10 * acc + 1)
    ELSE ParseOk(IntValue(acc), s)

RECURSIVE ParseValue(_)
RECURSIVE ParseElems(_, _)
ParseValue(s) ==
    LET t == lstrip(s)
    IN  IF t = <<>> THEN ParseFail
        ELSE CASE Head(t) = "1" -> ParseDigits(t, 0)
               [] Head(t) = "{" ->
                    LET u == lstrip(Tail(t))
                    IN  IF u # <<>> /\ Head(u) = "}"
                        THEN ParseOk(DictValue, Tail(u))
                        ELSE ParseFail
               [] Head(t) = "[" ->
                    LET u == lstrip(Tail(t))
                    IN  IF u # <<>> /\ Head(u) = "]"
                        THEN ParseOk(ListValue(<<>>), Tail(u))
                        ELSE ParseElems(u, <<>>)
               [] OTHER -> ParseFail

ParseElems(s, acc) ==
    LET v == ParseValue(s)
    IN  IF ~v.ok THEN ParseFail
        ELSE LET u == lstrip(v.rest)
             IN  IF u = <<>> THEN ParseFail
                 ELSE CASE Head(u) = "]" ->
                             ParseOk(ListValue(Append(acc, v.value)), Tail(u))
                        [] Head(u) = "," ->
                             ParseElems(Tail(u), Append(acc, v.value))
                        [] OTHER -> ParseFail

json_loads(s) ==
    LET v == ParseValue(s)
    IN  IF v.ok /\ lstrip(v.rest) = <<>>
        THEN Returned(v.value)
        ELSE Raised("JSONDecodeError")

\* The texts a backend may answer with: a body, possibly between an opening
\* and a closing fence, with whitespace around and between.
JsonBodies ==
    {<<"{", "}">>, <<"{", " ", "}">>, <<"[", "]">>, <<"1">>,
     <<"[", "1", ",", " ", "1", "1", "]">>}

MalformedBodies ==
    {<<>>, <<"{">>, <<"1", "]">>, <<"[", "1", ",", "]">>}

WsRuns == UNION {[1..k -> Whitespace] : k \in 0..MaxWs}

TextParts ==
    [pre : WsRuns,
     open : {<<>>, Fence, FenceJson, FenceJs},
     sep1 : {<<>>, <<"\n">>},
     body : JsonBodies \cup MalformedBodies,
     sep2 : {<<>>, <<"\n">>},
     close : {<<>>, Fence},
     post : WsRuns]

NoParts ==
    [pre |-> <<>>, open |-> <<>>, sep1 |-> <<>>, body |-> <<>>,
     sep2 |-> <<>>, close |-> <<>>, post |-> <<>>]

ResponseText(parts) ==
    parts.pre \o parts.open \o parts.sep1 \o parts.body \o parts.sep2
    \o parts.close \o parts.post

\* What the SDK does for a request: it answers with a text, answers without
\* one (response.text is None), or raises.
BackendOutcomes(client) ==
    {[kind |-> "text", parts |-> p] : p \in TextParts}
    \cup {[kind |-> k, parts |-> NoParts] : k \in {"unavailable", "timeout"}}
    \cup (IF client = "gemini"
          THEN {[kind |-> "no_text", parts |-> NoParts]}
          ELSE {})

SdkError(b) == IF b.kind = "timeout" THEN "Timeout" ELSE "ServerError"

NoCall == [client |-> "", method |-> ""]
NoBackend == [kind |-> "none", parts |-> NoParts]

Calls ==
    {[client |-> "gemini", method |-> "generate"],
     [client |-> "gemini", method |-> "generate_json"],
     [client |-> "ollama", method |-> "generate"]}

\* GeminiClient.generate with the exception swallowed into an empty text.
GeminiClient_generate_swallow(b) ==
    IF b.kind \in {"unavailable", "timeout"} THEN Returned(StrValue(<<>>))
    ELSE IF b.kind = "no_text" THEN Returned(NoneValue)
    ELSE Returned(StrValue(ResponseText(b.parts)))

\* GeminiClient.generate (gemini_client.py:35-79): one request; the text of
\* the response is returned, an exception is printed and raised again.
GeminiClient_generate(b) ==
    IF b.kind \in {"unavailable", "timeout"} THEN Raised(SdkError(b))
    ELSE IF b.kind = "no_text" THEN Returned(NoneValue)
    ELSE Returned(StrValue(ResponseText(b.parts)))

\* OllamaClient.generate (ollama_client.py:31-75): one chat request; the
\* content of the message is returned, an exception is printed and raised
\* again.
OllamaClient_generate(b) ==
    IF b.kind \in {"unavailable", "timeout"} THEN Raised(SdkError(b))
    ELSE Returned(StrValue(ResponseText(b.parts)))

\* The extraction with the json fence cut one character short.
extract_json_short(response_text) ==
    LET t0 == strip(response_text)
        t1 == IF startswith(t0, FenceJson) THEN SliceFrom(t0, 6) ELSE t0
        t2 == IF startswith(t1, Fence) THEN SliceFrom(t1, 3) ELSE t1
        t3 == IF endswith(t2, Fence) THEN SliceDropLast(t2, 3) ELSE t2
    IN  json_loads(strip(t3))

\* The extraction of generate_json (gemini_client.py:138-148).
extract_json(response_text) ==
    LET t0 == strip(response_text)
        t1 == IF startswith(t0, FenceJson) THEN SliceFrom(t0, 7) ELSE t0
        t2 == IF startswith(t1, Fence) THEN SliceFrom(t1, 3) ELSE t1
        t3 == IF endswith(t2, Fence) THEN SliceDropLast(t2, 3) ELSE t2
    IN  json_loads(strip(t3))

\* GeminiClient.generate_json (gemini_client.py:109-148): generate, then the
\* extraction.  A failure of generate leaves as it is; a response without
\* text fails at response_text.strip().
GeminiClient_generate_json(b) ==
    LET r == GeminiClient_generate(b)
    IN  IF r.kind = "raised" THEN r
        ELSE IF r.value.type = "None" THEN Raised("AttributeError")
        ELSE extract_json(r.value.text)

GeminiGenerate ==
    /\ call = [client |-> "gemini", method |-> "generate"]
    /\ result.kind = "pending"
    /\ attempts' = attempts + 1
    /\ result' = GeminiClient_generate(backend)
    /\ UNCHANGED <<call, backend>>
    /\ UNCHANGED ctlVars
    /\ UNCHANGED rpVars

GeminiGenerateJson ==
    /\ call = [client |-> "gemini", method |-> "generate_json"]
    /\ result.kind = "pending"
    /\ attempts' = attempts + 1
    /\ result' = GeminiClient_generate_json(backend)
    /\ UNCHANGED <<call, backend>>
    /\ UNCHANGED ctlVars
    /\ UNCHANGED rpVars

OllamaGenerate ==
    /\ call = [client |-> "ollama", method |-> "generate"]
    /\ result.kind = "pending"
    /\ attempts' = attempts + 1
    /\ result' = OllamaClient_generate(backend)
    /\ UNCHANGED <<call, backend>>
    /\ UNCHANGED ctlVars
    /\ UNCHANGED rpVars

(***************************************************************************)
(* The 10-K report: src/utils/data_loader.py and query_10K_report of       *)
(* src/agent/tools.py.                                                     *)
(***************************************************************************)

\* The characters of reports and queries, and str.lower on them.
ReportChars == {"a", "b", "A"}

lower(s) == [i \in DOMAIN s |-> IF s[i] = "A" THEN "a" ELSE s[i]]

\* str.find: the lowest index (from 0) at which sub occurs in s, -1 if none.
find(s, sub) ==
    LET at == {i \in 0..(Len(s) - Len(sub)) :
                 SubSeq(s, i + 1, i + Len(sub)) = sub}
    IN  IF at = {} THEN -1
        ELSE CHOOSE i \in at : \A j \in at : i <= j

Max(a, b) == IF a >= b THEN a ELSE b
Min(a, b) == IF a <= b THEN a ELSE b

\* The texts latest_10k.text() may give, and the queries a caller may ask.
Reports == UNION {[1..k -> ReportChars] : k \in 1..MaxReportLen}
Queries == UNION {[1..k -> ReportChars] : k \in 0..MaxQueryLen}

\* Characters kept on each side of the match (tools.py:36-37).
SnippetRadius == 500

NoAnswer == [kind |-> "none", snippet |-> <<>>]
NoQuery == [text |-> <<>>, loaded |-> FALSE, report |-> <<>>]

\* The body of query_10K_report (tools.py:28-43) on the content the name
\* TEN_K_REPORT_CONTENT is bound to.
search_report(content, query) ==
    IF content = <<>>
    THEN [kind |-> "ERROR", snippet |-> <<>>]
    ELSE LET match_index == find(lower(content), lower(query))
         IN  IF match_index # -1
             THEN LET start == Max(0, match_index - SnippetRadius)
                      end == Min(Len(content), match_index + SnippetRadius)
                  IN  [kind |-> "Found", snippet |-> SubSeq(content, start + 1, end)]
             ELSE [kind |-> "NoMatch", snippet |-> <<>>]

InitReport ==
    /\ loaderContent = <<>>
    /\ toolsImported = FALSE
    /\ toolsContent = <<>>
    /\ loaded = FALSE
    /\ lastQuery = NoQuery
    /\ answer = NoAnswer

\* Importing agent/tools.py runs "from ..utils.data_loader import
\* TEN_K_REPORT_CONTENT" (tools.py:9): the name in tools is bound to the
\* string the loader's global holds at that moment.
ImportTools ==
    /\ ~toolsImported
    /\ toolsImported' = TRUE
    /\ toolsContent' = loaderContent
    /\ UNCHANGED <<loaderContent, loaded, lastQuery, answer>>
    /\ UNCHANGED ctlVars
    /\ UNCHANGED gwVars

\* download_and_load_10K (data_loader.py:12-71): on success the loader's
\* global is rebound to the text of the filing; on any exception "" is
\* returned and the global is left as it was.
download_and_load_10K ==
    /\ \E ok \in BOOLEAN, content \in Reports :
         /\ loaderContent' = IF ok THEN content ELSE loaderContent
         /\ loaded' = (loaded \/ ok)
    /\ UNCHANGED <<toolsImported, toolsContent, lastQuery, answer>>
    /\ UNCHANGED ctlVars
    /\ UNCHANGED gwVars

\* query_10K_report (tools.py:12-43) reads the name bound in tools.
query_10K_report ==
    /\ toolsImported
    /\ \E query \in Queries :
         /\ answer' = search_report(toolsContent, query)
         /\ lastQuery' = [text |-> query, loaded |-> loaded,
                          report |-> loaderContent]
    /\ UNCHANGED <<loaderContent, toolsImported, toolsContent, loaded>>
    /\ UNCHANGED ctlVars
    /\ UNCHANGED gwVars

Init ==
    /\ messages = <<>>
    /\ pc = "idle"
    /\ response = NoResponse
    /\ prompt = ""
    /\ error = ""
    /\ tradeLog = <<>>
    /\ call = NoCall
    /\ backend = NoBackend
    /\ attempts = 0
    /\ result = NoResult
    /\ InitReport

Next == UserMessage \/ agent_node

Spec == Init /\ [][Next]_vars

\* One logical call of a client method, on any answer of its backend.
InitGateway ==
    /\ messages = <<>>
    /\ pc = "idle"
    /\ response = NoResponse
    /\ prompt = ""
    /\ error = ""
    /\ tradeLog = <<>>
    /\ call \in Calls
    /\ backend \in BackendOutcomes(call.client)
    /\ attempts = 0
    /\ result = NoResult
    /\ InitReport

NextGateway == GeminiGenerate \/ GeminiGenerateJson \/ OllamaGenerate

SpecGateway == InitGateway /\ [][NextGateway]_vars

\* The report tool and its loader, in any order of import, load and query.
NextReport == ImportTools \/ download_and_load_10K \/ query_10K_report

SpecReport == Init /\ [][NextReport]_vars

(***************************************************************************)
(* Properties of the conversation controller, checked under Spec.          *)
(***************************************************************************)

TradeRequests ==
    {o \in PlanOutcomes : o.kind = "TOOL_CALL" /\ o.name = "execute_trade"}

Invoked(req) ==
    \E i \in DOMAIN tradeLog :
       tradeLog[i] = execute_trade(req.args.ticker, req.args.shares,
                                   req.args.order_type)

LastIsAssistant ==
    /\ messages # <<>>
    /\ messages[Len(messages)].role = "assistant"

\* C1: in every turn execute_trade has been invoked for a request if and
\* only if a guardrail verdict allow=true was issued for that request.  No
\* statement of the controller evaluates a request or issues a verdict, so
\* the set of allowed requests is empty, and the trade tool has run for no
\* request, evaluated or not.
C1_TradeIffAllowed ==
    LET allowed == {}
    IN  \A req \in TradeRequests : Invoked(req) <=> req \in allowed

\* C1's case: the planning model proposed a trade, no verdict was issued
\* for it, the turn is over and the trade tool has not run.
C1_Witness ==
    /\ pc = "returned"
    /\ response \in TradeRequests
    /\ tradeLog = <<>>

\* C5: a turn that is over while the planning model was still proposing a
\* tool call ends with a synthesized final answer of the assistant.
C5_TurnEndsWithAnswer ==
    (pc = "returned" /\ response.kind = "TOOL_CALL") => LastIsAssistant

C7_PlanningFailureAnswered ==
    error \in {"ServerError", "Timeout"} =>
        (pc = "returned" /\ LastIsAssistant)

(***************************************************************************)
(* Properties of the model clients, checked under SpecGateway.             *)
(***************************************************************************)

CallOver == result.kind # "pending"

\* The call of a guardrail stage went wrong: the backend raised, or the
\* text it answered cannot be decoded as a verdict.
StageErrored ==
    \/ backend.kind \in {"unavailable", "timeout"}
    \/ /\ call.method = "generate_json"
       /\ \/ backend.kind = "no_text"
          \/ backend.kind = "text" /\ backend.parts.body \in MalformedBodies

Fenced(tags) ==
    /\ call.method = "generate_json"
    /\ CallOver
    /\ backend.kind = "text"
    /\ backend.parts.open \in tags
    /\ backend.parts.close = Fence
    /\ backend.parts.body \in JsonBodies

\* C8 as amended: a JSON text wrapped in an opening fence with the tag json
\* or with no tag, and a closing fence, with surrounding whitespace, parses
\* to the object the unwrapped text parses to; and a body that is not JSON
\* makes the call raise JSONDecodeError, whatever is wrapped around it.
C8_FenceRoundTripJsonTag ==
    /\ Fenced({Fence, FenceJson}) =>
          /\ result.kind = "returned"
          /\ result = extract_json(backend.parts.body)
    /\ (/\ call.method = "generate_json"
        /\ CallOver
        /\ backend.kind = "text"
        /\ backend.parts.body \in MalformedBodies) =>
          result = Raised("JSONDecodeError")

\* C8's case: an array wrapped in a json fence with whitespace before,
\* between and after has been parsed.
C8_Witness ==
    /\ Fenced({FenceJson})
    /\ backend.parts.pre # <<>>
    /\ backend.parts.sep1 # <<>>
    /\ backend.parts.post # <<>>
    /\ result.kind = "returned"
    /\ result.value.type = "list"
    /\ Len(result.value.items) = 2

\* C8 as stated: the same with any language tag on the opening fence.
C8_FenceRoundTripAnyTag ==
    Fenced({Fence, FenceJson, FenceJs}) =>
        result = extract_json(backend.parts.body)

\* C10: a logical call is reported as failed for an unavailable backend
\* only when the retry budget of MAX_RETRIES is used up.
C10_RetryBudgetApplied ==
    (CallOver /\ backend.kind = "unavailable" /\ result.kind = "raised") =>
        attempts >= MAX_RETRIES

(***************************************************************************)
(* The planning request, checked under Spec.                               *)
(***************************************************************************)

\* The contents of the history, in order.
HistoryContents == [i \in DOMAIN messages |-> messages[i].content]

\* The contents the planning request carried (contents=prompt_text).
SentContents == <<prompt>>

\* C11: a planning call that reached the model carried the whole history:
\* the contents of all messages appended so far, in order.
C11_PlanningSeesFullHistory ==
    (pc = "returned" \/ (pc = "raised" /\ error # "IndexError")) =>
        SentContents = HistoryContents

(***************************************************************************)
(* Properties of the report tool, checked under SpecReport.                *)
(***************************************************************************)

\* C12: a query made after download_and_load_10K has succeeded searches the
\* loaded report: it returns the Found snippet when its text occurs in the
\* report and the No-direct-match message when it does not; the ERROR
\* string is returned only when no report has been loaded.
C12_LoadedReportIsSearched ==
    (answer.kind # "none" /\ lastQuery.loaded) =>
        answer.kind =
          (IF find(lower(lastQuery.report), lower(lastQuery.text)) # -1
           THEN "Found" ELSE "NoMatch")

====
